---- MODULE Spec2Model ----
(***************************************************************************)
(* Biographer AI backend (src/backend/main.py): the SQLite store           *)
(* (qa_pairs, biography, llm_config), the request handlers and the prompt  *)
(* builders, as a state machine.                                           *)
(*                                                                         *)
(* Conventions                                                             *)
(*   - an optional (nullable) value is NULL == <<>> or Some(v) == <<v>>;   *)
(*   - a text is a sequence of chunks; the chunk " " is whitespace, every  *)
(*     other chunk is a run of non-whitespace characters;                  *)
(*   - a handler that awaits a provider call is split at the await: the    *)
(*     part before it, and the part after it; `req` holds the locals of    *)
(*     the request that is suspended at its await.                         *)
(***************************************************************************)
EXTENDS Integers, Sequences, FiniteSets, TLC

VARIABLES
    qa,         \* table qa_pairs: rowid -> row
    seq,        \* sqlite_sequence entry of qa_pairs (AUTOINCREMENT)
    bio,        \* table biography: NULL or Some(the row with id = 1)
    cfg,        \* table llm_config: NULL or Some(the row with id = 1)
    now,        \* CURRENT_TIMESTAMP
    req,        \* the request suspended at a provider call, or idle
    last,       \* the last completed request and its response
    db_pages    \* pages of the database file (its size, os.path.getsize)

vars == <<qa, seq, bio, cfg, now, req, last, db_pages>>

----------------------------------------------------------------------------
(* Bounds of the model *)

MaxRows == 2        \* rows of qa_pairs at any time
MaxSeq  == 2        \* rowids ever assigned
MaxTime == 1        \* clock readings 0..MaxTime
MaxHistory == 11    \* rows of a long interview (SpecCtx)

----------------------------------------------------------------------------
(* Values *)

NULL == <<>>
Some(v) == <<v>>

\* Python truthiness of an optional text: None and "" are falsy
Truthy(o) == o # NULL /\ o[1] # <<>>

IsSpace(c) == c = " "

\* main.py:310 and main.py:352
Placeholder ==
    << "No", " ", "interview", " ", "data", " ", "available", " ", "yet.",
       " ", "Complete", " ", "some", " ", "interview", " ", "questions",
       " ", "first." >>

\* str.split() followed by len(): the number of maximal runs of
\* non-whitespace
WordCount(t) ==
    Cardinality({ i \in 1..Len(t) :
                    ~IsSpace(t[i]) /\ (i = 1 \/ IsSpace(t[i-1])) })

\* str.strip()
Strip(t) ==
    LET ns == { i \in 1..Len(t) : ~IsSpace(t[i]) }
    IN  IF ns = {} THEN <<>>
        ELSE LET lo == CHOOSE i \in ns : \A j \in ns : i <= j
                 hi == CHOOSE i \in ns : \A j \in ns : j <= i
             IN  SubSeq(t, lo, hi)

\* main.py:106-126
LLM_MODELS ==
    [ chatgpt    |-> { "gpt-4o", "gpt-4o-mini", "gpt-4-turbo", "gpt-4",
                       "gpt-3.5-turbo" },
      claude     |-> { "claude-3-5-sonnet-20241022", "claude-3-opus-20240229",
                       "claude-3-haiku-20240307" },
      openrouter |-> { "anthropic/claude-3.5-sonnet", "openai/gpt-4o",
                       "openai/gpt-4-turbo", "openai/gpt-4",
                       "meta-llama/llama-3.1-405b-instruct" } ]

\* existing_qa_pairs[-10:], main.py:267
ContextLimit == 10

----------------------------------------------------------------------------
(* Inputs the requests are drawn from *)

ProviderInputs == { "chatgpt", "acme" }
ModelInputs    == { "gpt-4o", "not-a-model" }
KeyInputs      == { "k1", "k2" }
\* api keys longer than a page of the database file
LongKeys       == { "k5000" }

CustomInputs   == { NULL, Some(<<>>), Some(<<" ", "mine">>) }
TopicInputs    == { NULL, Some(<<"school">>) }
AnswerInputs   == { <<>>, <<"yes">> }
OutlineInputs  == { <<"ch1">> }

\* bodies of a provider's 200 response, before .strip()
Completions    == { <<" ">>, <<"w", " ", "v", " ">> }
QuestionCompletions == { <<"w", " ", "v", " ">> }

----------------------------------------------------------------------------
(* The store *)

\* SQLite stores a Python bool in a BOOLEAN column as the integer 0 or 1
BoolToInt(b) == IF b THEN 1 ELSE 0

\* ORDER BY timestamp DESC: NULL sorts below every value
SortKey(ts) == IF ts = NULL THEN -1 ELSE ts[1]

\* rowids of q in the order of SELECT ... ORDER BY timestamp DESC; rows with
\* equal timestamps come out in rowid order (the table scan feeds a stable
\* sort)
RECURSIVE OrderedIds(_, _)
OrderedIds(q, S) ==
    IF S = {} THEN <<>>
    ELSE LET f == CHOOSE i \in S : \A j \in S \ {i} :
                     \/ SortKey(q[i].timestamp) > SortKey(q[j].timestamp)
                     \/ /\ SortKey(q[i].timestamp) = SortKey(q[j].timestamp)
                        /\ i < j
         IN  <<f>> \o OrderedIds(q, S \ {f})

\* dict(row) of one row of qa_pairs
PairDict(q, i) ==
    [ id        |-> Some(i),
      question  |-> Some(q[i].question),
      answer    |-> q[i].answer,
      timestamp |-> q[i].timestamp,
      is_custom |-> Some(q[i].is_custom),
      category  |-> q[i].category,
      metadata  |-> q[i].metadata ]

pairs_of(q) ==
    LET ids == OrderedIds(q, DOMAIN q)
    IN  [ k \in 1..Len(ids) |-> PairDict(q, ids[k]) ]

get_all_qa_pairs == pairs_of(qa)

get_biography == bio

get_llm_config == cfg

\* INSERT OR REPLACE INTO biography (id, outline, outline_updated): the row
\* with id = 1 is deleted and a new one inserted; the columns not named get
\* their defaults (NULL, and 0 for word_count)
save_biography_outline(b, outline) ==
    Some([ outline         |-> Some(outline),
           full_text       |-> NULL,
           outline_updated |-> Some(now),
           text_updated    |-> NULL,
           word_count      |-> Some(0) ])

\* UPDATE biography SET full_text, text_updated, word_count WHERE id = 1,
\* and an INSERT of the three columns when no row was updated
save_biography_text(b, text) ==
    IF b # NULL
    THEN Some([ b[1] EXCEPT !.full_text    = Some(text),
                            !.text_updated = Some(now),
                            !.word_count   = Some(WordCount(text)) ])
    ELSE Some([ outline         |-> NULL,
                full_text       |-> Some(text),
                outline_updated |-> NULL,
                text_updated    |-> Some(now),
                word_count      |-> Some(WordCount(text)) ])

\* INSERT into a table whose id is not AUTOINCREMENT: the rowid is one more
\* than the largest in the table
InsertRow_rowid(q, s, row) ==
    LET top == IF DOMAIN q = {} THEN 0
               ELSE CHOOSE i \in DOMAIN q : \A k \in DOMAIN q : k <= i
    IN  [ i \in (DOMAIN q) \cup {top + 1} |-> IF i = top + 1 THEN row ELSE q[i] ]

\* INSERT INTO qa_pairs without an id: AUTOINCREMENT takes the rowid after
\* the largest one ever used
InsertRow(q, s, row) == [ i \in (DOMAIN q) \cup {s + 1} |->
                            IF i = s + 1 THEN row ELSE q[i] ]

\* DELETE FROM qa_pairs WHERE id <= ?
RemoveRow_through(q, id) == [ i \in { j \in DOMAIN q : j > id } |-> q[i] ]

\* DELETE FROM qa_pairs WHERE id = ?
RemoveRow(q, id) == [ i \in (DOMAIN q) \ {id} |-> q[i] ]

\* DELETE FROM qa_pairs
EmptyTable == [ i \in {} |-> NULL ]

\* The file of the database.  Every row of the model is shorter than a page,
\* so the tables stay on the pages init_db gave them; only an api_key longer
\* than a page takes an overflow page.  The file never shrinks: a page that
\* was freed is reused, and REPLACE writes the new row while the overflow
\* page of the old one is still taken.
EmptyFilePages == 5

FileBytes(pages) == pages * 4096

OverflowPages(api_key) == IF api_key \in LongKeys THEN 1 ELSE 0

pages_after_write(pages, config, api_key) ==
    LET held == IF config = NULL THEN 0 ELSE OverflowPages(config[1].api_key)
        need == IF OverflowPages(api_key) = 0 THEN 0
                ELSE OverflowPages(api_key) + held
    IN  IF pages >= EmptyFilePages + need THEN pages
        ELSE EmptyFilePages + need

----------------------------------------------------------------------------
(* Provider adapters and prompt builders *)

\* call_chatgpt / call_claude / call_openrouter: the completion of a 200
\* response, stripped
call_result(raw) == Strip(raw)

\* pairs[-n:]
LastN(pairs, n) ==
    IF Len(pairs) <= n THEN pairs
    ELSE SubSeq(pairs, Len(pairs) - n + 1, Len(pairs))

\* one "Q: ..." line and, when the answer is truthy, its "A: ..." line
QuestionEntry(pair) ==
    IF Truthy(pair.answer) THEN << pair.id, pair.question, pair.answer >>
    ELSE << pair.id, pair.question >>

\* the context block of generate_question_with_llm; the id of each pair is
\* kept beside its lines to tell which pairs the block was built from
question_context(existing_qa_pairs) ==
    LET used == LastN(existing_qa_pairs, ContextLimit)
    IN  [ k \in 1..Len(used) |-> QuestionEntry(used[k]) ]

question_prompt(existing_qa_pairs, topic_prompt) ==
    [ kind       |-> "question",
      qa_context |-> question_context(existing_qa_pairs),
      topic      |-> IF Truthy(topic_prompt) THEN topic_prompt ELSE NULL,
      outline    |-> NULL ]

answered_pairs(qa_pairs) == SelectSeq(qa_pairs, LAMBDA pair : Truthy(pair.answer))

biography_context(qa_pairs) ==
    LET used == answered_pairs(qa_pairs)
    IN  [ k \in 1..Len(used) |-> << used[k].id, used[k].question, used[k].answer >> ]

outline_prompt(qa_pairs) ==
    [ kind       |-> "outline",
      qa_context |-> biography_context(qa_pairs),
      topic      |-> NULL,
      outline    |-> NULL ]

text_prompt(qa_pairs, outline) ==
    [ kind       |-> "text",
      qa_context |-> biography_context(qa_pairs),
      topic      |-> NULL,
      outline    |-> Some(outline) ]

----------------------------------------------------------------------------
(* Documents of GET /database/export and POST /database/import.  A key that *)
(* is missing from a dict, or null, reads as NULL (dict.get).               *)

DocPair(id, question, answer, timestamp, is_custom) ==
    [ id        |-> id,
      question  |-> question,
      answer    |-> answer,
      timestamp |-> timestamp,
      is_custom |-> is_custom,
      category  |-> NULL,
      metadata  |-> NULL ]

DocBio(outline, full_text, word_count) ==
    [ outline         |-> outline,
      full_text       |-> full_text,
      outline_updated |-> NULL,
      text_updated    |-> NULL,
      word_count      |-> word_count ]

Doc(qa_pairs, biography) ==
    [ qa_pairs |-> qa_pairs, biography |-> biography ]

\* hand-written documents a caller may post
\* {}
EmptyDoc == Doc(NULL, NULL)

\* one answered pair, and a text without an outline
AnsweredDoc ==
    Doc(Some(<< DocPair(Some(7), Some(<<"mine">>), Some(<<"yes">>),
                        Some(0), NULL) >>),
        Some(DocBio(NULL, Some(<<"w", " ", "v">>), Some(2))))

\* a text whose word_count is not its token count
MiscountedDoc ==
    Doc(Some(<<>>), Some(DocBio(Some(<<"ch1">>), Some(<<"w">>), Some(5))))

\* a pair without a question
BrokenDoc ==
    Doc(Some(<< DocPair(NULL, NULL, Some(<<"yes">>), NULL, NULL) >>), NULL)

StoreImportInputs == { EmptyDoc, AnsweredDoc, BrokenDoc }

BioImportInputs == { AnsweredDoc, MiscountedDoc }

\* the row INSERTed for one pair of the document (main.py:644-654)
ImportedRow(d) ==
    [ question  |-> d.question[1],
      answer    |-> d.answer,
      timestamp |-> d.timestamp,
      is_custom |-> IF d.is_custom = NULL THEN BoolToInt(FALSE)
                    ELSE d.is_custom[1],
      category  |-> d.category,
      metadata  |-> d.metadata ]

\* the row INSERTed for the document's biography (main.py:659-669)
ImportedBio(b) ==
    [ outline         |-> b.outline,
      full_text       |-> b.full_text,
      outline_updated |-> b.outline_updated,
      text_updated    |-> b.text_updated,
      word_count      |-> IF b.word_count = NULL THEN Some(0)
                          ELSE b.word_count ]

\* the pairs of the document, [] when the key is missing
DocPairs(doc) == IF doc.qa_pairs = NULL THEN <<>> ELSE doc.qa_pairs[1]

\* the table q after the INSERTs of the document's pairs, in the order of
\* the document: rowids continue after the sequence s
ImportedTable(q, doc, s) ==
    LET ps == DocPairs(doc)
    IN  [ i \in (DOMAIN q) \cup ((s + 1)..(s + Len(ps))) |->
            IF i > s THEN ImportedRow(ps[i - s]) ELSE q[i] ]

\* NOT NULL constraint of qa_pairs.question
ImportFails(doc) ==
    \E k \in 1..Len(DocPairs(doc)) : DocPairs(doc)[k].question = NULL

\* dict(row) of the row of llm_config
ConfigDict(row) ==
    [ id |-> 1, provider |-> row.provider, model |-> row.model,
      api_key |-> row.api_key ]

\* the config as it was read
export_config_with_key(config) == config

\* config.pop('api_key', None)
export_config(config) ==
    [ k \in (DOMAIN config) \ {"api_key"} |-> config[k] ]

\* the document of export_database: every pair, the biography row, and the
\* config without its api_key
export_data ==
    [ export_date |-> now,
      qa_pairs    |-> Some(get_all_qa_pairs),
      biography   |-> IF bio = NULL THEN NULL
                      ELSE Some([ id              |-> 1,
                                  outline         |-> bio[1].outline,
                                  full_text       |-> bio[1].full_text,
                                  outline_updated |-> bio[1].outline_updated,
                                  text_updated    |-> bio[1].text_updated,
                                  word_count      |-> bio[1].word_count ]),
      config      |-> IF get_llm_config = NULL THEN NULL
                      ELSE Some(export_config(ConfigDict(get_llm_config[1]))) ]

\* the body of GET /biography
get_biography_data ==
    IF bio = NULL
    THEN [ outline |-> NULL, full_text |-> NULL, outline_updated |-> NULL,
           text_updated |-> NULL, word_count |-> Some(0) ]
    ELSE bio[1]

----------------------------------------------------------------------------
(* Requests and responses *)

Idle == [ pc |-> "idle" ]

Response(op, status) == [ op |-> op, status |-> status ]

ResponseWith(op, body) == [ op |-> op, status |-> "ok", body |-> body ]

IdInputs == 1..(MaxSeq + 1)

UpdateInputs ==
    { [ question |-> <<"edited">>, answer |-> Some(<<"yes">>),
        category |-> Some(<<"family">>) ] }

\* the stored full text and word count, as GET /biography shows them
TextPart(b) ==
    IF b = NULL THEN << NULL, Some(0) >>
    ELSE << b[1].full_text, b[1].word_count >>

\* the stored outline and its date, as GET /biography shows them
OutlinePart(b) ==
    IF b = NULL THEN << NULL, NULL >>
    ELSE << b[1].outline, b[1].outline_updated >>

\* a suspended generate_full_biography remembers the text that was stored
\* when it started; a write of the biography by another request replaces
\* what it remembers
Retrack(r, b) ==
    IF r.pc \in { "await_bio_outline", "await_bio_text" } /\ b # bio
    THEN [ r EXCEPT !.pre = TextPart(b) ]
    ELSE r

Init ==
    /\ qa = EmptyTable
    /\ seq = 0
    /\ bio = NULL
    /\ cfg = NULL
    /\ now = 0
    /\ req = Idle
    /\ last = Response("startup", "ok")
    /\ db_pages = EmptyFilePages

\* the clock advances
Tick ==
    /\ now < MaxTime
    /\ now' = now + 1
    /\ UNCHANGED << qa, seq, bio, cfg, req, last, db_pages >>

----------------------------------------------------------------------------
(* POST /config/llm *)

\* a check of the provider alone
config_check_provider_only(provider, model) ==
    IF provider \notin DOMAIN LLM_MODELS THEN "InvalidProvider" ELSE "ok"

config_check(provider, model) ==
    IF provider \notin DOMAIN LLM_MODELS THEN "InvalidProvider"
    ELSE IF model \notin LLM_MODELS[provider] THEN "InvalidModel"
    ELSE "ok"

set_llm_config(provider, model, api_key) ==
    /\ last' = Response("set_llm_config", config_check(provider, model))
    /\ cfg' = IF config_check(provider, model) = "ok"
              THEN Some([ provider |-> provider, model |-> model,
                          api_key |-> api_key ])
              ELSE cfg
    /\ db_pages' = IF config_check(provider, model) = "ok"
                   THEN pages_after_write(db_pages, cfg, api_key)
                   ELSE db_pages
    /\ UNCHANGED << qa, seq, bio, now, req >>

----------------------------------------------------------------------------
(* POST /question/generate *)

\* the text as it was sent
custom_question_unstripped(c) == c

\* request.custom_question.strip()
custom_question_text(c) == Strip(c)

NewQuestionRow(question, is_custom) ==
    [ question  |-> question,
      answer    |-> NULL,
      timestamp |-> Some(now),
      is_custom |-> BoolToInt(is_custom),
      category  |-> NULL,
      metadata  |-> NULL ]

HasRoom == seq < MaxSeq /\ Cardinality(DOMAIN qa) < MaxRows

\* the branch of a custom question: no provider call
generate_question_custom(custom, topic) ==
    /\ Truthy(custom)
    /\ HasRoom
    /\ qa' = InsertRow(qa, seq, NewQuestionRow(custom_question_text(custom[1]), TRUE))
    /\ seq' = seq + 1
    /\ last' = ResponseWith("generate_question",
                   [ id |-> seq + 1,
                     question |-> custom_question_text(custom[1]),
                     is_custom |-> TRUE ])
    /\ UNCHANGED << bio, cfg, now, req, db_pages >>

\* the branches that ask the provider, up to the await of the call
generate_question_llm(custom, topic) ==
    /\ ~Truthy(custom)
    /\ IF get_llm_config = NULL
       THEN /\ last' = Response("generate_question", "ProviderNotConfigured")
            /\ UNCHANGED req
       ELSE /\ req.pc = "idle"
            /\ req' = [ pc     |-> "await_question",
                        op     |-> "generate_question",
                        prompt |-> question_prompt(get_all_qa_pairs, topic) ]
            /\ UNCHANGED last
    /\ UNCHANGED << qa, seq, bio, cfg, now, db_pages >>

\* the provider answers 200: the stripped completion is stored as a question
question_generated(raw) ==
    /\ req.pc = "await_question"
    /\ HasRoom
    /\ qa' = InsertRow(qa, seq, NewQuestionRow(call_result(raw), FALSE))
    /\ seq' = seq + 1
    /\ req' = Idle
    /\ last' = ResponseWith("generate_question",
                   [ id |-> seq + 1,
                     question |-> call_result(raw),
                     is_custom |-> FALSE ])
    /\ UNCHANGED << bio, cfg, now, db_pages >>

\* the provider answers with another status: the handler raises
provider_failed ==
    /\ req.pc # "idle"
    /\ req' = Idle
    /\ last' = Response(req.op, "UpstreamProviderError")
    /\ UNCHANGED << qa, seq, bio, cfg, now, db_pages >>

----------------------------------------------------------------------------
(* POST /answer, PUT /qa/{id}, DELETE /qa/{id} *)

\* an UPDATE without its WHERE
with_answer_everywhere(q, id, answer) ==
    [ i \in DOMAIN q |-> [ q[i] EXCEPT !.answer = Some(answer) ] ]

\* UPDATE qa_pairs SET answer = ? WHERE id = ?
with_answer(q, id, answer) == [ q EXCEPT ![id].answer = Some(answer) ]

submit_answer(qa_id, answer) ==
    /\ IF qa_id \in DOMAIN qa
       THEN /\ qa' = with_answer(qa, qa_id, answer)
            /\ last' = Response("submit_answer", "ok")
       ELSE /\ last' = Response("submit_answer", "NotFound")
            /\ UNCHANGED qa
    /\ UNCHANGED << seq, bio, cfg, now, req, db_pages >>

update_qa_pair(qa_id, qa_pair) ==
    /\ IF qa_id \in DOMAIN qa
       THEN /\ qa' = [ qa EXCEPT ![qa_id].question = qa_pair.question,
                                 ![qa_id].answer   = qa_pair.answer,
                                 ![qa_id].category = qa_pair.category ]
            /\ last' = Response("update_qa_pair", "ok")
       ELSE /\ last' = Response("update_qa_pair", "NotFound")
            /\ UNCHANGED qa
    /\ UNCHANGED << seq, bio, cfg, now, req, db_pages >>

delete_qa_pair(qa_id) ==
    /\ IF qa_id \in DOMAIN qa
       THEN /\ qa' = RemoveRow(qa, qa_id)
            /\ last' = Response("delete_qa_pair", "ok")
       ELSE /\ last' = Response("delete_qa_pair", "NotFound")
            /\ UNCHANGED qa
    /\ UNCHANGED << seq, bio, cfg, now, req, db_pages >>

----------------------------------------------------------------------------
(* POST /biography/outline/generate, PUT /biography/outline *)

\* generate_biography_outline_with_llm up to its return or its await:
\* "config" when no config is stored, "placeholder" when the list of pairs
\* is empty, "call" when the provider is asked
outline_branch(qa_pairs) ==
    IF get_llm_config = NULL THEN "config"
    ELSE IF qa_pairs = <<>> THEN "placeholder"
    ELSE "call"

\* generate_biography_text_with_llm, likewise
text_branch(qa_pairs) ==
    IF get_llm_config = NULL THEN "config"
    ELSE IF qa_pairs = <<>> THEN "placeholder"
    ELSE "call"

generate_outline ==
    /\ LET qa_pairs == get_all_qa_pairs
           branch   == outline_branch(qa_pairs)
       IN  CASE branch = "config" ->
                  /\ last' = Response("generate_outline", "ProviderNotConfigured")
                  /\ UNCHANGED << bio, req >>
             [] branch = "placeholder" ->
                  /\ bio' = save_biography_outline(bio, Placeholder)
                  /\ req' = Retrack(req, bio')
                  /\ last' = ResponseWith("generate_outline",
                                          [ outline |-> Placeholder ])
             [] branch = "call" ->
                  /\ req.pc = "idle"
                  /\ req' = [ pc     |-> "await_outline",
                              op     |-> "generate_outline",
                              prompt |-> outline_prompt(qa_pairs) ]
                  /\ UNCHANGED << bio, last >>
    /\ UNCHANGED << qa, seq, cfg, now, db_pages >>

\* the provider answers 200 to generate_outline
outline_generated(raw) ==
    /\ req.pc = "await_outline"
    /\ bio' = save_biography_outline(bio, call_result(raw))
    /\ req' = Idle
    /\ last' = ResponseWith("generate_outline", [ outline |-> call_result(raw) ])
    /\ UNCHANGED << qa, seq, cfg, now, db_pages >>

update_outline(outline) ==
    /\ bio' = save_biography_outline(bio, outline)
    /\ req' = Retrack(req, bio')
    /\ last' = Response("update_outline", "ok")
    /\ UNCHANGED << qa, seq, cfg, now, db_pages >>

----------------------------------------------------------------------------
(* POST /biography/generate *)

\* generate_full_biography from the call of generate_biography_text_with_llm
\* on: b is the biography table at that point, pre the text the request
\* found stored.  Gives the biography table, the request and the response
\* the step ends with.
text_phase(b, qa_pairs, outline, pre) ==
    CASE text_branch(qa_pairs) = "config" ->
           [ bio  |-> b, req |-> Idle,
             last |-> Response("generate_full_biography",
                               "ProviderNotConfigured") ]
      [] text_branch(qa_pairs) = "placeholder" ->
           [ bio  |-> save_biography_text(b, Placeholder), req |-> Idle,
             last |-> ResponseWith("generate_full_biography",
                          [ full_text  |-> Placeholder,
                            word_count |-> WordCount(Placeholder) ]) ]
      [] text_branch(qa_pairs) = "call" ->
           [ bio  |-> b,
             req  |-> [ pc     |-> "await_bio_text",
                        op     |-> "generate_full_biography",
                        prompt |-> text_prompt(qa_pairs, outline),
                        pre    |-> pre ],
             last |-> last ]

\* not biography or not biography.get('outline')
NeedsOutline(b) == b = NULL \/ ~Truthy(b[1].outline)

generate_full_biography ==
    /\ LET qa_pairs  == get_all_qa_pairs
           biography == get_biography
           pre       == TextPart(bio)
       IN  IF NeedsOutline(biography)
           THEN CASE outline_branch(qa_pairs) = "config" ->
                       /\ last' = Response("generate_full_biography",
                                           "ProviderNotConfigured")
                       /\ UNCHANGED << bio, req >>
                  [] outline_branch(qa_pairs) = "placeholder" ->
                       LET b1 == save_biography_outline(bio, Placeholder)
                           r  == text_phase(b1, qa_pairs, Placeholder, pre)
                       IN  /\ req.pc = "idle" \/ r.req.pc = "idle"
                           /\ bio' = r.bio
                           /\ req' = IF r.req.pc = "idle"
                                     THEN Retrack(req, r.bio) ELSE r.req
                           /\ last' = r.last
                  [] outline_branch(qa_pairs) = "call" ->
                       /\ req.pc = "idle"
                       /\ req' = [ pc       |-> "await_bio_outline",
                                   op       |-> "generate_full_biography",
                                   prompt   |-> outline_prompt(qa_pairs),
                                   qa_pairs |-> qa_pairs,
                                   pre      |-> pre ]
                       /\ UNCHANGED << bio, last >>
           ELSE LET r == text_phase(bio, qa_pairs, biography[1].outline[1], pre)
                IN  /\ req.pc = "idle" \/ r.req.pc = "idle"
                    /\ bio' = r.bio
                    /\ req' = IF r.req.pc = "idle"
                              THEN Retrack(req, r.bio) ELSE r.req
                    /\ last' = r.last
    /\ UNCHANGED << qa, seq, cfg, now, db_pages >>

\* the provider answers 200 to the outline call of generate_full_biography:
\* the outline is saved and the text is asked for
bio_outline_generated(raw) ==
    /\ req.pc = "await_bio_outline"
    /\ LET outline == call_result(raw)
           b1      == save_biography_outline(bio, outline)
           r       == text_phase(b1, req.qa_pairs, outline, req.pre)
       IN  /\ bio' = r.bio
           /\ req' = r.req
           /\ last' = r.last
    /\ UNCHANGED << qa, seq, cfg, now, db_pages >>

\* the provider answers 200 to the text call: the text is saved
bio_text_generated(raw) ==
    /\ req.pc = "await_bio_text"
    /\ bio' = save_biography_text(bio, call_result(raw))
    /\ req' = Idle
    /\ last' = ResponseWith("generate_full_biography",
                   [ full_text  |-> call_result(raw),
                     word_count |-> WordCount(call_result(raw)) ])
    /\ UNCHANGED << qa, seq, cfg, now, db_pages >>

----------------------------------------------------------------------------
(* GET /database/export, POST /database/import, DELETE /database/clear *)

export_database ==
    /\ last' = ResponseWith("export_database", export_data)
    /\ UNCHANGED << qa, seq, bio, cfg, now, req, db_pages >>

\* no DELETE
uncleared_qa(q) == q

\* DELETE FROM qa_pairs
cleared_qa(q) == EmptyTable

\* DELETE FROM biography
cleared_bio(b) == NULL

\* the document of the export that was just served, if any
ExportedDocs ==
    IF last.op = "export_database"
    THEN { Doc(last.body.qa_pairs, last.body.biography) }
    ELSE {}

\* a failed INSERT raises before the commit: the connection is dropped and
\* its transaction rolled back, the DELETEs included
import_database(import_data) ==
    /\ seq + Len(DocPairs(import_data)) <= MaxSeq
    /\ Len(DocPairs(import_data)) <= MaxRows
    /\ IF ImportFails(import_data)
       THEN /\ last' = Response("import_database", "StoreError")
            /\ UNCHANGED << qa, seq, bio, req >>
       ELSE /\ qa' = ImportedTable(cleared_qa(qa), import_data, seq)
            /\ seq' = seq + Len(DocPairs(import_data))
            /\ bio' = IF import_data.biography = NULL THEN cleared_bio(bio)
                      ELSE Some(ImportedBio(import_data.biography[1]))
            /\ req' = Retrack(req, bio')
            /\ last' = Response("import_database", "ok")
    /\ UNCHANGED << cfg, now, db_pages >>

clear_database ==
    /\ qa' = cleared_qa(qa)
    /\ bio' = cleared_bio(bio)
    /\ req' = Retrack(req, bio')
    /\ last' = Response("clear_database", "ok")
    /\ UNCHANGED << seq, cfg, now, db_pages >>

----------------------------------------------------------------------------
(* GET /config/llm, GET /qa, GET /biography, GET /database/stats *)

\* the body of GET /config/llm
current_llm_config ==
    IF get_llm_config # NULL
    THEN [ provider   |-> get_llm_config[1].provider,
           model      |-> get_llm_config[1].model,
           configured |-> TRUE ]
    ELSE [ configured |-> FALSE ]

get_current_llm_config ==
    /\ last' = ResponseWith("get_current_llm_config", current_llm_config)
    /\ UNCHANGED << qa, seq, bio, cfg, now, req, db_pages >>

get_qa_pairs ==
    /\ last' = ResponseWith("get_qa_pairs", [ qa_pairs |-> get_all_qa_pairs ])
    /\ UNCHANGED << qa, seq, bio, cfg, now, req, db_pages >>

get_biography_request ==
    /\ last' = ResponseWith("get_biography_data", get_biography_data)
    /\ UNCHANGED << qa, seq, bio, cfg, now, req, db_pages >>

\* SELECT COUNT(*) FROM qa_pairs WHERE answer IS NOT NULL
answered_not_null(q) == { i \in DOMAIN q : q[i].answer # NULL }

\* SELECT COUNT(*) FROM qa_pairs WHERE answer IS NOT NULL AND answer != ''
answered_rows(q) ==
    { i \in DOMAIN q : q[i].answer # NULL /\ Len(q[i].answer[1]) > 0 }

\* round(db_size / (1024 * 1024), 2), in hundredths of a MB
SizeMb(bytes) == (bytes * 100 + 524288) \div 1048576

\* the body of GET /database/stats
database_stats ==
    LET total_questions    == Cardinality(DOMAIN qa)
        answered_questions == Cardinality(answered_rows(qa))
        db_size            == FileBytes(db_pages)
    IN  [ total_questions      |-> total_questions,
          answered_questions   |-> answered_questions,
          unanswered_questions |-> total_questions - answered_questions,
          biography_word_count |-> IF bio = NULL THEN Some(0)
                                   ELSE bio[1].word_count,
          database_size_bytes  |-> db_size,
          database_size_mb     |-> SizeMb(db_size) ]

get_database_stats ==
    /\ last' = ResponseWith("get_database_stats", database_stats)
    /\ UNCHANGED << qa, seq, bio, cfg, now, req, db_pages >>

----------------------------------------------------------------------------
(* The system *)

\* the config and the generation of questions
NextAsk ==
    \/ Tick
    \/ \E p \in ProviderInputs, m \in ModelInputs, k \in KeyInputs :
           set_llm_config(p, m, k)
    \/ \E c \in CustomInputs, t \in TopicInputs : generate_question_custom(c, t)
    \/ \E c \in CustomInputs, t \in TopicInputs : generate_question_llm(c, t)
    \/ \E raw \in QuestionCompletions : question_generated(raw)
    \/ provider_failed
    \/ \E i \in IdInputs : delete_qa_pair(i)
    \/ clear_database

\* the interview log and the transfer of the dataset
NextStore ==
    \/ Tick
    \/ \E p \in ProviderInputs, m \in ModelInputs, k \in KeyInputs :
           set_llm_config(p, m, k)
    \/ \E c \in CustomInputs, t \in TopicInputs : generate_question_custom(c, t)
    \/ \E i \in IdInputs, a \in AnswerInputs : submit_answer(i, a)
    \/ \E i \in IdInputs, u \in UpdateInputs : update_qa_pair(i, u)
    \/ \E i \in IdInputs : delete_qa_pair(i)
    \/ export_database
    \/ \E d \in StoreImportInputs \cup ExportedDocs : import_database(d)
    \/ clear_database

\* the biography, with the requests that feed it
NextBio ==
    \/ Tick
    \/ \E p \in ProviderInputs, m \in ModelInputs : set_llm_config(p, m, "k1")
    \/ \E c \in CustomInputs : generate_question_custom(c, NULL)
    \/ \E i \in IdInputs, a \in AnswerInputs : submit_answer(i, a)
    \/ provider_failed
    \/ generate_outline
    \/ \E raw \in Completions : outline_generated(raw)
    \/ \E o \in OutlineInputs : update_outline(o)
    \/ generate_full_biography
    \/ \E raw \in Completions : bio_outline_generated(raw)
    \/ \E raw \in Completions : bio_text_generated(raw)
    \/ \E d \in BioImportInputs : import_database(d)
    \/ clear_database

\* the config and the reads
NextKey ==
    \/ \E p \in ProviderInputs, m \in ModelInputs, k \in KeyInputs \cup LongKeys :
           set_llm_config(p, m, k)
    \/ \E c \in CustomInputs : generate_question_custom(c, NULL)
    \/ \E i \in IdInputs, a \in AnswerInputs : submit_answer(i, a)
    \/ \E o \in OutlineInputs : update_outline(o)
    \/ get_current_llm_config
    \/ get_qa_pairs
    \/ get_biography_request
    \/ get_database_stats
    \/ export_database

\* the answers, and the requests and the statistics that read them
NextAnswered ==
    \/ \E p \in ProviderInputs, m \in ModelInputs : set_llm_config(p, m, "k1")
    \/ \E c \in CustomInputs : generate_question_custom(c, NULL)
    \/ \E i \in IdInputs, a \in AnswerInputs : submit_answer(i, a)
    \/ provider_failed
    \/ generate_outline
    \/ \E raw \in Completions : outline_generated(raw)
    \/ generate_full_biography
    \/ \E raw \in Completions : bio_outline_generated(raw)
    \/ \E raw \in Completions : bio_text_generated(raw)
    \/ get_database_stats

Next == NextAsk \/ NextStore \/ NextBio \/ NextKey \/ NextAnswered

Spec == Init /\ [][Next]_vars

SpecAsk == Init /\ [][NextAsk]_vars

SpecStore == Init /\ [][NextStore]_vars

SpecBio == Init /\ [][NextBio]_vars

SpecKey == Init /\ [][NextKey]_vars

SpecAnswered == Init /\ [][NextAnswered]_vars

\* A long interview: n custom questions were asked, one every `pace`-th of
\* a clock reading, and those of `answered` were answered.
LongInterview(n, pace, answered) ==
    [ i \in 1..n |->
        [ question  |-> <<"mine">>,
          answer    |-> IF i \in answered THEN Some(<<"yes">>) ELSE NULL,
          timestamp |-> Some((i - 1) \div pace),
          is_custom |-> BoolToInt(TRUE),
          category  |-> NULL,
          metadata  |-> NULL ] ]

InitCtx ==
    /\ \E n \in 0..MaxHistory, pace \in {1, 2}, answered \in {{}, {1}, 1..MaxHistory} :
           /\ qa = LongInterview(n, pace, answered)
           /\ seq = n
    /\ bio = NULL
    /\ cfg \in { NULL, Some([ provider |-> "claude",
                              model |-> "claude-3-opus-20240229",
                              api_key |-> "k1" ]) }
    /\ now = MaxHistory
    /\ req = Idle
    /\ last = Response("startup", "ok")
    /\ db_pages = EmptyFilePages

\* next-question generation over a long interview
NextCtx ==
    \/ \E c \in CustomInputs, t \in TopicInputs : generate_question_llm(c, t)
    \/ \E raw \in QuestionCompletions : question_generated(raw)
    \/ provider_failed
    \/ \E i \in IdInputs, a \in AnswerInputs : submit_answer(i, a)
    \/ \E i \in IdInputs : delete_qa_pair(i)

SpecCtx == InitCtx /\ [][NextCtx]_vars

----------------------------------------------------------------------------
(* Claims *)

\* the text fields of the biography, as GET /biography shows them
TextFields ==
    << get_biography_data.full_text, get_biography_data.text_updated,
       get_biography_data.word_count >>

\* C1: in every reachable state the stored word_count is the number of
\* whitespace-separated tokens of the stored full_text, and 0 when there is
\* no full_text.
C1_WordCountMatchesText ==
    get_biography_data.word_count =
        Some(IF get_biography_data.full_text = NULL THEN 0
             ELSE WordCount(get_biography_data.full_text[1]))

\* C2: a request that saves an outline (update_outline, generate_outline)
\* leaves full_text, text_updated and word_count as they were, and the save
\* of a full text leaves outline and outline_updated as they were.
C2_OutlineAndTextIndependent ==
    [][ /\ ( \/ \E o \in OutlineInputs : update_outline(o)
             \/ generate_outline
             \/ \E raw \in Completions : outline_generated(raw) )
           => TextFields' = TextFields
        /\ ( \E raw \in Completions : bio_text_generated(raw) )
           => OutlinePart(bio') = OutlinePart(bio) ]_vars

\* the pairs a next-question prompt was built from
ContextIds(prompt) ==
    { prompt.qa_context[k][1][1] : k \in 1..Len(prompt.qa_context) }

\* no pair of q outside S was created after a pair of S
MostRecentIn(S, q) ==
    \A i \in S, j \in (DOMAIN q) \ S :
        SortKey(q[j].timestamp) <= SortKey(q[i].timestamp)

\* C3: the context block of a next-question prompt has at most 10 entries,
\* and when the store holds more than 10 pairs they are the 10 pairs created
\* most recently.
C3_ContextIsMostRecent ==
    [][ (req.pc = "idle" /\ req'.pc = "await_question")
        => /\ Len(req'.prompt.qa_context) <= ContextLimit
           /\ Cardinality(DOMAIN qa) > ContextLimit
              => /\ Cardinality(ContextIds(req'.prompt)) = ContextLimit
                 /\ ContextIds(req'.prompt) \subseteq DOMAIN qa
                 /\ MostRecentIn(ContextIds(req'.prompt), qa) ]_vars

\* C4: while the pairs a request read hold no answered pair, outline and
\* full-text generation ask no provider: no provider call of theirs is in
\* flight with a prompt that holds no answered pair.
C4_NoCallWithoutAnswers ==
    req.pc \in { "await_outline", "await_bio_outline", "await_bio_text" }
    => req.prompt.qa_context # <<>>

\* C6: when a provider call of generate_full_biography fails, the stored
\* full_text and word_count are those that were stored before the request
\* (or that another request stored meanwhile).
C6_FailedRunKeepsText ==
    [][ (provider_failed /\ req.op = "generate_full_biography")
        => TextPart(bio') = req.pre ]_vars

\* C5: an import of the document that was just exported gives back the
\* same list of pairs to GET /qa (same ids, fields and order) and the same
\* biography row.
C5_ExportImportRoundTrip ==
    [][ ( /\ last.op = "export_database"
          /\ import_database(Doc(last.body.qa_pairs, last.body.biography)) )
        => /\ get_all_qa_pairs' = get_all_qa_pairs
           /\ bio' = bio ]_vars

\* C7 as stated: a generate_question request that carries a customText
\* stores that very text as a new pair with is_custom set.
C7_CustomStoredVerbatim ==
    [][ \A c \in CustomInputs \ {NULL}, t \in TopicInputs :
          (generate_question_custom(c, t) \/ generate_question_llm(c, t))
          => /\ seq' = seq + 1
             /\ qa'[seq'].question = c[1]
             /\ qa'[seq'].is_custom = 1 ]_vars

\* C7, amended: a non-empty customText is stored stripped of its leading and
\* trailing whitespace, as one new pair with is_custom set, with or without
\* a config; an empty customText counts as none; a request that asks the
\* provider fails with ProviderNotConfigured when no config is stored; a
\* failed request stores no pair.
C7_GenerateQuestion ==
    [][ last'.op = "generate_question" =>
        /\ \A c \in CustomInputs, t \in TopicInputs :
             /\ generate_question_custom(c, t)
                => /\ c # NULL /\ c[1] # <<>>
                   /\ seq' = seq + 1
                   /\ DOMAIN qa' = (DOMAIN qa) \cup {seq'}
                   /\ \A i \in DOMAIN qa : qa'[i] = qa[i]
                   /\ qa'[seq'].question = Strip(c[1])
                   /\ qa'[seq'].is_custom = 1
                   /\ qa'[seq'].answer = NULL
                   /\ last'.status = "ok"
             /\ (generate_question_llm(c, t) /\ cfg = NULL)
                => /\ c = NULL \/ c[1] = <<>>
                   /\ last' = Response("generate_question", "ProviderNotConfigured")
                   /\ qa' = qa /\ seq' = seq
        /\ (provider_failed /\ req.op = "generate_question")
           => qa' = qa /\ seq' = seq ]_vars

\* a custom question sent with leading whitespace was stored, stripped, while
\* no config was stored
C7_Witness ==
    /\ cfg = NULL
    /\ last.op = "generate_question" /\ last.status = "ok"
    /\ last.body.is_custom
    /\ last.body.id \in DOMAIN qa
    /\ qa[last.body.id].question = <<"mine">>
    /\ qa[last.body.id].is_custom = 1

\* C8: set_llm_config answers InvalidProvider to a provider outside
\* LLM_MODELS and InvalidModel to a model outside the provider's list, and
\* then leaves the stored config as it was; the stored provider and model are
\* always a pair of LLM_MODELS; a set_llm_config of what is already stored
\* changes nothing of the store.
\* (the states before and after every step are the reachable states)
ConfigInTable ==
    cfg # NULL => /\ cfg[1].provider \in DOMAIN LLM_MODELS
                  /\ cfg[1].model \in LLM_MODELS[cfg[1].provider]

C8_ConfigValidated ==
    [][ /\ ConfigInTable /\ ConfigInTable'
        /\ (last'.op = "set_llm_config" /\ (last' # last \/ cfg' # cfg)) =>
           \A p \in ProviderInputs, m \in ModelInputs, k \in KeyInputs :
             set_llm_config(p, m, k)
             => /\ p \notin DOMAIN LLM_MODELS
                   => last'.status = "InvalidProvider" /\ cfg' = cfg
                /\ (p \in DOMAIN LLM_MODELS /\ m \notin LLM_MODELS[p])
                   => last'.status = "InvalidModel" /\ cfg' = cfg
                /\ (p \in DOMAIN LLM_MODELS /\ m \in LLM_MODELS[p])
                   => /\ last'.status = "ok"
                      /\ cfg' = Some([ provider |-> p, model |-> m,
                                       api_key |-> k ])
                /\ cfg = Some([ provider |-> p, model |-> m, api_key |-> k ])
                   => << qa, seq, bio, cfg, now, req >>' =
                      << qa, seq, bio, cfg, now, req >> ]_vars

\* a model of another provider's list was refused while a config was stored
C8_Witness ==
    /\ cfg # NULL
    /\ last = Response("set_llm_config", "InvalidModel")

\* C9: submit_answer, update_qa_pair and delete_qa_pair on an id that is not
\* stored answer NotFound and leave the pairs and the biography as they
\* were; submit_answer on a stored id sets the answer of that pair, the empty
\* string included, and changes nothing else of any pair.
C9_ByIdRequests ==
    [][ last'.op \in { "submit_answer", "update_qa_pair", "delete_qa_pair" } =>
        \A i \in IdInputs :
          /\ i \notin DOMAIN qa
             => /\ \A a \in AnswerInputs :
                     submit_answer(i, a)
                     => last'.status = "NotFound" /\ qa' = qa /\ bio' = bio
                /\ \A u \in UpdateInputs :
                     update_qa_pair(i, u)
                     => last'.status = "NotFound" /\ qa' = qa /\ bio' = bio
                /\ delete_qa_pair(i)
                   => last'.status = "NotFound" /\ qa' = qa /\ bio' = bio
          /\ i \in DOMAIN qa
             => \A a \in AnswerInputs :
                  submit_answer(i, a)
                  => /\ last'.status = "ok"
                     /\ DOMAIN qa' = DOMAIN qa
                     /\ qa'[i].answer = Some(a)
                     /\ qa'[i] = [ qa[i] EXCEPT !.answer = qa'[i].answer ]
                     /\ \A j \in (DOMAIN qa) \ {i} : qa'[j] = qa[j]
                     /\ bio' = bio ]_vars

\* the empty string was submitted as the answer of one of two stored pairs,
\* and the other pair is still unanswered
C9_Witness ==
    /\ last = Response("submit_answer", "ok")
    /\ \E i, j \in DOMAIN qa :
         /\ i # j
         /\ qa[i].answer = Some(<<>>)
         /\ qa[j].answer = NULL

\* the rows of table q in rowid order
RECURSIVE RowsInOrder(_, _)
RowsInOrder(q, S) ==
    IF S = {} THEN <<>>
    ELSE LET m == CHOOSE i \in S : \A j \in S : i <= j
         IN  << q[m] >> \o RowsInOrder(q, S \ {m})

Reads ==
    << current_llm_config, export_data, [ qa_pairs |-> get_all_qa_pairs ],
       get_biography_data, database_stats >>

\* Stats without the size of the file
StatsCounts ==
    [ k \in (DOMAIN database_stats) \ {"database_size_bytes", "database_size_mb"} |->
        database_stats[k] ]

ReadsButSize ==
    << current_llm_config, export_data, [ qa_pairs |-> get_all_qa_pairs ],
       get_biography_data, StatsCounts >>

\* a step between two states of the store that differ in the api_key alone
KeyAloneChanges ==
    /\ last'.op = "set_llm_config"
    /\ cfg # NULL /\ cfg' # NULL /\ cfg' # cfg
    /\ cfg'[1].provider = cfg[1].provider /\ cfg'[1].model = cfg[1].model
    /\ qa' = qa /\ seq' = seq /\ bio' = bio /\ now' = now

\* the response just served carries no api_key field
NoKeyField ==
    /\ last.op = "get_current_llm_config" => "api_key" \notin DOMAIN last.body
    /\ (last.op = "export_database" /\ last.body.config # NULL)
           => "api_key" \notin DOMAIN last.body.config[1]

\* C11 (as claimed): two states that differ only in the stored api_key give
\* the same response to every read operation (GET /config/llm, Export,
\* GET /qa, GET /biography, Stats), and no exported config has an api_key
\* field.
C11_ReadsIgnoreKey ==
    [][ /\ last'.op \in {"get_current_llm_config", "export_database"}
               => NoKeyField'
        /\ KeyAloneChanges => Reads' = Reads ]_vars

\* C11 (amended): two states that differ only in the stored api_key give the
\* same response to GET /config/llm, Export, GET /qa and GET /biography, and
\* the same counts in Stats (its database_size_bytes and database_size_mb
\* are the size of the file that holds the key and may differ); no exported
\* config has an api_key field.
C11_ReadsIgnoreKeyButSize ==
    [][ /\ last'.op \in {"get_current_llm_config", "export_database"}
               => NoKeyField'
        /\ KeyAloneChanges => ReadsButSize' = ReadsButSize ]_vars

\* a long key is stored and the file grew, and an export was served with
\* the config in it
C11_Witness ==
    /\ last.op = "export_database"
    /\ last.body = export_data
    /\ last.body.config # NULL
    /\ cfg[1].api_key \in LongKeys
    /\ db_pages > EmptyFilePages

\* Stats: unanswered = total - answered, and 0 <= answered <= total
StatsAddUp ==
    /\ database_stats.unanswered_questions =
           database_stats.total_questions - database_stats.answered_questions
    /\ 0 <= database_stats.answered_questions
    /\ database_stats.answered_questions <= database_stats.total_questions

\* C12: a DELETE /qa/{id} of an existing id removes that row and no other:
\* GET /qa afterwards is GET /qa before without the pair of that id, every
\* other pair unchanged and in its place, and the total of Stats is one
\* less; in every state Stats has unanswered = total - answered and
\* 0 <= answered <= total.
C12_DeleteRemovesOneRow ==
    [][ /\ StatsAddUp /\ StatsAddUp'
        /\ last'.op = "delete_qa_pair" =>
              \A qa_id \in DOMAIN qa : delete_qa_pair(qa_id) =>
                 /\ last'.status = "ok"
                 /\ DOMAIN qa' = (DOMAIN qa) \ {qa_id}
                 /\ \A i \in DOMAIN qa' : qa'[i] = qa[i]
                 /\ get_all_qa_pairs' =
                       SelectSeq(get_all_qa_pairs,
                                 LAMBDA pair : pair.id # Some(qa_id))
                 /\ database_stats'.total_questions =
                       database_stats.total_questions - 1 ]_vars

\* the older of two pairs was deleted; the other, answered, is still there
C12_Witness ==
    /\ last = Response("delete_qa_pair", "ok")
    /\ DOMAIN qa = {2}
    /\ qa[2].answer = Some(<<"yes">>)
    /\ database_stats.total_questions = 1
    /\ database_stats.answered_questions = 1

\* C13: ids of qa_pairs are never reused.  seq is the largest id the store
\* has assigned so far: every row has an id of at most seq, seq never
\* decreases, and a row that appears (by POST /question/generate or an
\* import, also after deletes and clears) has an id above seq; so an answer
\* sent with the id of a row that is gone finds no row, writes nothing, and
\* no answer changes the question of a row.
C13_IdsNeverReused ==
    [][ /\ \A i \in DOMAIN qa : i <= seq
        /\ \A i \in DOMAIN qa' : i <= seq'
        /\ seq' >= seq
        /\ \A i \in (DOMAIN qa') \ (DOMAIN qa) : i > seq
        /\ last'.op = "submit_answer" =>
              /\ DOMAIN qa' = DOMAIN qa
              /\ \A i \in DOMAIN qa : qa'[i].question = qa[i].question
              /\ \A i \in (1..seq) \ (DOMAIN qa), a \in AnswerInputs :
                     submit_answer(i, a) =>
                        qa' = qa /\ last'.status = "NotFound" ]_vars

\* the first pair was deleted and a question asked after that got the id 2
C13_Witness ==
    /\ last.op = "generate_question"
    /\ last.status = "ok"
    /\ last.body.id = 2
    /\ seq = 2
    /\ DOMAIN qa = {2}

\* the pairs Stats counts as answered, by the id GET /qa gives them
StatsAnswered == answered_rows(qa)

\* a request for an outline or a full text reads the pairs and builds the
\* prompt of its provider call
ReadsForPrompt ==
    /\ req.pc = "idle"
    /\ req'.pc \in {"await_outline", "await_bio_outline", "await_bio_text"}

\* C14: 'answered' is the same everywhere.  In every state the pairs Stats
\* counts as answered (answer neither NULL nor the empty string) are the
\* pairs an outline prompt and a full-text prompt built in that state hold
\* in their Q/A context, and as many; a pair whose answer is the empty
\* string is not counted and is in neither; the prompt a request builds
\* when it reads the pairs holds exactly the pairs Stats counts then, and
\* the full-text prompt that follows the outline call of the same request
\* holds the same pairs as its outline prompt.
C14_AnsweredIsTheSame ==
    [][ /\ ContextIds(outline_prompt(get_all_qa_pairs)) = StatsAnswered
        /\ ContextIds(text_prompt(get_all_qa_pairs, <<"ch1">>)) = StatsAnswered
        /\ database_stats.answered_questions =
              Len(outline_prompt(get_all_qa_pairs).qa_context)
        /\ database_stats.answered_questions =
              Len(text_prompt(get_all_qa_pairs, <<"ch1">>).qa_context)
        /\ \A i \in DOMAIN qa : qa[i].answer = Some(<<>>) =>
              /\ i \notin StatsAnswered
              /\ i \notin ContextIds(outline_prompt(get_all_qa_pairs))
              /\ i \notin ContextIds(text_prompt(get_all_qa_pairs, <<"ch1">>))
        /\ ReadsForPrompt =>
              /\ ContextIds(req'.prompt) = StatsAnswered
              /\ Len(req'.prompt.qa_context) = database_stats.answered_questions
        /\ (req.pc = "await_bio_outline" /\ req'.pc = "await_bio_text") =>
              req'.prompt.qa_context = req.prompt.qa_context ]_vars

\* of two pairs one was answered with the empty string and one with a text;
\* Stats counted one of them, and a full text is asked for with that one
C14_Witness ==
    /\ DOMAIN qa = {1, 2}
    /\ qa[1].answer = Some(<<>>)
    /\ qa[2].answer = Some(<<"yes">>)
    /\ last.op = "get_database_stats"
    /\ last.body.answered_questions = 1
    /\ last.body.unanswered_questions = 1
    /\ req.pc = "await_bio_text"
    /\ ContextIds(req.prompt) = {2}

====
